---- MODULE Spec2Model ----
(***************************************************************************)
(* Model of dlopt/optimization.py: the Solution value type (per-variable   *)
(* encoded values, per-target fitness) and its net-target-wins comparison. *)
(* A Python dict is a TLA+ function whose DOMAIN is the key set; a raised  *)
(* exception is an outcome record whose err field carries the message.     *)
(***************************************************************************)
EXTENDS Integers, FiniteSets, Sequences, TLC

(* ------------------------------ bounds --------------------------------- *)
\* fitness values of the life-cycle specification are 0..MaxFit
MaxFit == 1
\* fitness values of the ordering specification are 0..MaxOrdFit
MaxOrdFit == 2
\* longest variable_names list handed to the constructor
MaxVars == 1

TargetNames == {"p", "q"}
VarNames == {"x"}
Directions == {1, -1}
FitVals == 0 .. MaxFit
OrdFitVals == 0 .. MaxOrdFit

\* Python's None, and the opaque encoded values a caller may store
None == "None"
EncVals == {None, "e1"}

\* exception messages / kinds
NoErr == "none"
NotComparable == "Solutions are not comparables"
TargetMismatch == "'target' does not match"
KeyError == "KeyError"

(* ------------------------------ dicts ---------------------------------- *)
EmptyDict == << >>

\* d[k] = v
DictSet(d, k, v) == [x \in (DOMAIN d) \cup {k} |-> IF x = k THEN v ELSE d[x]]

\* set(d.items())
Items(d) == {<<k, d[k]>> : k \in DOMAIN d}

\* len(d)
Len0(d) == Cardinality(DOMAIN d)

Range(s) == {s[n] : n \in 1 .. Len(s)}

\* outcome of a call: the solution afterwards, the exception, the value
Return(s, v) == [self |-> s, err |-> NoErr, ret |-> v]
Raise(s, e) == [self |-> s, err |-> e, ret |-> None]

(* ----------------------------- Solution -------------------------------- *)
RECURSIVE InitEncoded(_, _)
\* for variable_name in variable_names: self.encoded[variable_name] = None
InitEncoded(d, names) ==
    IF names = <<>> THEN d
    ELSE InitEncoded(DictSet(d, Head(names), None), Tail(names))

\* a constructor that forgets the per-variable initialisation
NewSolutionNoEncoded(targets, variable_names) ==
    [targets |-> targets, fitness |-> EmptyDict, encoded |-> EmptyDict]

\* Solution.__init__(targets, variable_names)
NewSolution(targets, variable_names) ==
    [targets |-> targets,
     fitness |-> EmptyDict,
     encoded |-> InitEncoded(EmptyDict, variable_names)]

\* a lookup with a default, as dict.get would do
get_encodedDefault(s, variable_name) ==
    IF variable_name \in DOMAIN s.encoded
    THEN Return(s, s.encoded[variable_name])
    ELSE Return(s, None)

get_encoded(s, variable_name) ==
    IF variable_name \in DOMAIN s.encoded
    THEN Return(s, s.encoded[variable_name])
    ELSE Raise(s, KeyError)

set_encoded(s, variable_name, value) ==
    Return([s EXCEPT !.encoded = DictSet(s.encoded, variable_name, value)], None)

\* a lookup that does not test the target first
get_fitnessNoCheck(s, target) ==
    IF target \in DOMAIN s.fitness
    THEN Return(s, s.fitness[target])
    ELSE Raise(s, KeyError)

get_fitness(s, target) ==
    IF target \in DOMAIN s.targets
    THEN IF target \in DOMAIN s.fitness
         THEN Return(s, s.fitness[target])
         ELSE Raise(s, KeyError)
    ELSE Raise(s, TargetMismatch)

\* a store that does not test the target
set_fitnessUnchecked(s, target, value) ==
    Return([s EXCEPT !.fitness = DictSet(s.fitness, target, value)], None)

set_fitness(s, target, value) ==
    IF target \in DOMAIN s.targets
    THEN Return([s EXCEPT !.fitness = DictSet(s.fitness, target, value)], None)
    ELSE Raise(s, TargetMismatch)

\* the assignment sits inside "for target in self.targets": no target, no reset
clear_fitness(s) ==
    IF DOMAIN s.targets # {}
    THEN Return([s EXCEPT !.fitness = EmptyDict], None)
    ELSE Return(s, None)

\* the length test with <= in place of <
is_evaluatedOffByOne(s) ==
    IF Len0(s.fitness) <= Len0(s.targets)
    THEN Return(s, FALSE)
    ELSE IF \E target \in DOMAIN s.targets : target \notin DOMAIN s.fitness
         THEN Return(s, FALSE)
         ELSE Return(s, TRUE)

is_evaluated(s) ==
    IF Len0(s.fitness) < Len0(s.targets)
    THEN Return(s, FALSE)
    ELSE IF \E target \in DOMAIN s.targets : target \notin DOMAIN s.fitness
         THEN Return(s, FALSE)
         ELSE Return(s, TRUE)

\* differences that forget the direction of the targets
DifferencesNoDirection(a, b) ==
    [t \in DOMAIN a.fitness |-> a.fitness[t] - b.fitness[t]]

\* differences[t] for t in self.fitness (the keys are all present here)
Differences(a, b) ==
    [t \in DOMAIN a.fitness |->
        a.fitness[t] * a.targets[t] - b.fitness[t] * b.targets[t]]

\* a comparison without the guard on the number of recorded targets
comparedToNoCountCheck(a, b) ==
    IF Cardinality(Items(a.targets) \cap Items(b.targets)) # Len0(a.targets)
    THEN Raise(a, NotComparable)
    ELSE IF \E t \in DOMAIN a.fitness :
               \/ t \notin DOMAIN a.targets
               \/ t \notin DOMAIN b.fitness
               \/ t \notin DOMAIN b.targets
    THEN Raise(a, KeyError)
    ELSE LET differences == Differences(a, b)
             a_up == Cardinality({t \in DOMAIN differences : differences[t] > 0})
             b_up == Cardinality({t \in DOMAIN differences : differences[t] < 0})
         IN  Return(a, a_up - b_up)

comparedTo(a, b) ==
    IF Cardinality(Items(a.targets) \cap Items(b.targets)) # Len0(a.targets)
    THEN Raise(a, NotComparable)
    ELSE IF Len0(a.fitness) # Len0(b.fitness)
    THEN Raise(a, NotComparable)
    ELSE IF \E t \in DOMAIN a.fitness :
               \/ t \notin DOMAIN a.targets
               \/ t \notin DOMAIN b.fitness
               \/ t \notin DOMAIN b.targets
    THEN Raise(a, KeyError)
    ELSE LET differences == Differences(a, b)
             a_up == Cardinality({t \in DOMAIN differences : differences[t] > 0})
             b_up == Cardinality({t \in DOMAIN differences : differences[t] < 0})
         IN  Return(a, a_up - b_up)

Eq(a, b) ==
    LET c == comparedTo(a, b)
    IN  IF c.err # NoErr THEN c ELSE Return(a, c.ret = 0)

Lt(a, b) ==
    LET c == comparedTo(a, b)
    IN  IF c.err # NoErr THEN c ELSE Return(a, c.ret < 0)

\* __gt__ written with >= in place of >
GtOrEqual(a, b) ==
    LET c == comparedTo(a, b)
    IN  IF c.err # NoErr THEN c ELSE Return(a, c.ret >= 0)

Gt(a, b) ==
    LET c == comparedTo(a, b)
    IN  IF c.err # NoErr THEN c ELSE Return(a, c.ret > 0)

Le(a, b) ==
    LET c == comparedTo(a, b)
    IN  IF c.err # NoErr THEN c ELSE Return(a, c.ret <= 0)

Ge(a, b) ==
    LET c == comparedTo(a, b)
    IN  IF c.err # NoErr THEN c ELSE Return(a, c.ret >= 0)

RelOps == {"__eq__", "__lt__", "__gt__", "__le__", "__ge__"}

Rel(op, a, b) ==
    CASE op = "__eq__" -> Eq(a, b)
      [] op = "__lt__" -> Lt(a, b)
      [] op = "__gt__" -> Gt(a, b)
      [] op = "__le__" -> Le(a, b)
      [] op = "__ge__" -> Ge(a, b)

(* ------------------------------ inputs --------------------------------- *)
\* the dicts with key set S and values in V
DictsOver(S, V) == IF S = {} THEN {EmptyDict} ELSE [S -> V]

\* target-direction mappings over the target names, the empty one included
TargetMaps == UNION {DictsOver(S, Directions) : S \in SUBSET TargetNames}

\* variable_names lists of length at most MaxVars
VarNameLists == UNION {[1 .. n -> VarNames] : n \in 0 .. MaxVars}

\* the solutions a caller can hold: fitness is only ever set through
\* set_fitness, so its keys are keys of targets
Solutions ==
    UNION {{[targets |-> T, fitness |-> F, encoded |-> EmptyDict] :
               F \in UNION {DictsOver(S, FitVals) : S \in SUBSET DOMAIN T}} :
           T \in TargetMaps}

(* ------------------------------- state --------------------------------- *)
VARIABLES
    sol,             \* id -> the Solution object
    variable_names,  \* id -> the list its constructor was given
    called,          \* id -> targets set_fitness stored since construction
                     \*       or the last clear_fitness
    phase,           \* id -> "fresh": no mutator called since construction;
                     \*       "cleared": clear_fitness called and no
                     \*       set_fitness stored since; "set": otherwise
    last             \* the last call: <<op, self, arg, err, ret>>

vars == <<sol, variable_names, called, phase, last>>

\* the record of a call is the tuple <<op, self, arg, err, ret>>
Call(op, i, arg, out) == <<op, i, arg, out.err, out.ret>>

LastOp == last[1]
LastSelf == last[2]
LastArg == last[3]
LastErr == last[4]
LastRet == last[5]

\* the life-cycle specification follows one solution; the solutions it is
\* compared to are arguments of the call
Ids == {1}

Init ==
    \E T \in TargetMaps, names \in VarNameLists :
        /\ sol = [i \in Ids |-> NewSolution(T, names)]
        /\ variable_names = [i \in Ids |-> names]
        /\ called = [i \in Ids |-> {}]
        /\ phase = [i \in Ids |-> "fresh"]
        /\ last = <<"__init__", 1, None, NoErr, None>>

GetEncoded(i, variable_name) ==
    LET out == get_encoded(sol[i], variable_name)
    IN  /\ sol' = [sol EXCEPT ![i] = out.self]
        /\ last' = Call("get_encoded", i, <<variable_name>>, out)
        /\ UNCHANGED <<variable_names, called, phase>>

SetEncoded(i, variable_name, value) ==
    LET out == set_encoded(sol[i], variable_name, value)
    IN  /\ sol' = [sol EXCEPT ![i] = out.self]
        /\ last' = Call("set_encoded", i, <<variable_name, value>>, out)
        /\ phase' = [phase EXCEPT ![i] = IF @ = "fresh" THEN "set" ELSE @]
        /\ UNCHANGED <<variable_names, called>>

GetFitness(i, target) ==
    LET out == get_fitness(sol[i], target)
    IN  /\ sol' = [sol EXCEPT ![i] = out.self]
        /\ last' = Call("get_fitness", i, <<target>>, out)
        /\ UNCHANGED <<variable_names, called, phase>>

SetFitness(i, target, value) ==
    LET out == set_fitness(sol[i], target, value)
    IN  /\ sol' = [sol EXCEPT ![i] = out.self]
        /\ last' = Call("set_fitness", i, <<target, value>>, out)
        /\ IF out.err = NoErr
           THEN /\ called' = [called EXCEPT ![i] = @ \cup {target}]
                /\ phase' = [phase EXCEPT ![i] = "set"]
           ELSE UNCHANGED <<called, phase>>
        /\ UNCHANGED variable_names

ClearFitness(i) ==
    LET out == clear_fitness(sol[i])
    IN  /\ sol' = [sol EXCEPT ![i] = out.self]
        /\ last' = Call("clear_fitness", i, None, out)
        /\ called' = [called EXCEPT ![i] = {}]
        /\ phase' = [phase EXCEPT ![i] = "cleared"]
        /\ UNCHANGED variable_names

IsEvaluated(i) ==
    LET out == is_evaluated(sol[i])
    IN  /\ sol' = [sol EXCEPT ![i] = out.self]
        /\ last' = Call("is_evaluated", i, None, out)
        /\ UNCHANGED <<variable_names, called, phase>>

ComparedTo(i, other) ==
    LET out == comparedTo(sol[i], other)
    IN  /\ sol' = [sol EXCEPT ![i] = out.self]
        /\ last' = Call("comparedTo", i, other, out)
        /\ UNCHANGED <<variable_names, called, phase>>

Relational(op, i, other) ==
    LET out == Rel(op, sol[i], other)
    IN  /\ sol' = [sol EXCEPT ![i] = out.self]
        /\ last' = Call(op, i, other, out)
        /\ UNCHANGED <<variable_names, called, phase>>

Next ==
    \/ \E i \in Ids, v \in VarNames : GetEncoded(i, v)
    \/ \E i \in Ids, v \in VarNames, e \in EncVals : SetEncoded(i, v, e)
    \/ \E i \in Ids, t \in TargetNames : GetFitness(i, t)
    \/ \E i \in Ids, t \in TargetNames, f \in FitVals : SetFitness(i, t, f)
    \/ \E i \in Ids : ClearFitness(i)
    \/ \E i \in Ids : IsEvaluated(i)
    \/ \E i \in Ids, other \in Solutions : ComparedTo(i, other)

Spec == Init /\ [][Next]_vars

(* ----------------------- ordering specification ------------------------ *)
\* three fully evaluated solutions sharing one non-empty target mapping,
\* compared pairwise with the relational operators
OrdIds == {1, 2, 3}

OrdInit ==
    \E T \in TargetMaps \ {EmptyDict} :
        \E F \in [OrdIds -> DictsOver(DOMAIN T, OrdFitVals)] :
            /\ sol = [i \in OrdIds |->
                         [targets |-> T, fitness |-> F[i], encoded |-> EmptyDict]]
            /\ variable_names = [i \in OrdIds |-> <<>>]
            /\ called = [i \in OrdIds |-> DOMAIN T]
            /\ phase = [i \in OrdIds |-> "set"]
            /\ last = <<"__init__", 1, None, NoErr, None>>

OrdNext ==
    \E op \in RelOps, i \in OrdIds, j \in OrdIds :
        i < j /\ Relational(op, i, sol[j])

SpecOrd == OrdInit /\ [][OrdNext]_vars

(* ------------------------------ claims --------------------------------- *)
\* the solution the last call was made on, and the target or variable named
Self == sol[LastSelf]
ArgName == LastArg[1]

\* C1: for two solutions with identical target-direction mappings and fitness
\* recorded for the same set of targets, a.comparedTo(b) returns a_up - b_up:
\* the number of targets whose direction-normalised difference is strictly
\* positive minus the number where it is strictly negative (ties count for
\* neither side).
C1_ComparedToCountsNetWins ==
    (/\ LastOp = "comparedTo"
     /\ Self.targets = LastArg.targets
     /\ DOMAIN Self.fitness = DOMAIN LastArg.fitness)
    => LET a == Self
           b == LastArg
           direction == a.targets
           diff(t) == a.fitness[t] * direction[t] - b.fitness[t] * direction[t]
           a_up == Cardinality({t \in DOMAIN a.fitness : diff(t) > 0})
           b_up == Cardinality({t \in DOMAIN a.fitness : diff(t) < 0})
       IN  LastErr = NoErr /\ LastRet = a_up - b_up

\* a comparison won on a minimised target while the other target ties
C1_Witness ==
    /\ LastOp = "comparedTo"
    /\ LastErr = NoErr
    /\ Self.targets = LastArg.targets
    /\ DOMAIN Self.fitness = {"p", "q"}
    /\ DOMAIN LastArg.fitness = {"p", "q"}
    /\ Self.targets["p"] = -1
    /\ Self.fitness["p"] < LastArg.fitness["p"]
    /\ Self.fitness["q"] = LastArg.fitness["q"]
    /\ LastRet = 1

\* C2 (as stated): comparedTo fails with the not-comparable error whenever the
\* two target mappings are not identical as sets of (name, direction) pairs,
\* a strict-subset mapping included.
C2_DifferentTargetsNotComparable ==
    (/\ LastOp = "comparedTo"
     /\ Items(Self.targets) # Items(LastArg.targets))
    => LastErr = NotComparable

\* C3 (as stated): for any three fully evaluated solutions sharing the target
\* mapping, X > Y and Y > Z implies X > Z, and X >= Y and Y >= Z implies
\* X >= Z.  X is the solution of the last call, Y its argument.
C3_RelationalTransitive ==
    \A z \in DOMAIN sol :
        /\ (/\ LastOp = "__gt__"
            /\ LastRet = TRUE
            /\ Gt(LastArg, sol[z]).ret = TRUE)
           => Gt(Self, sol[z]).ret = TRUE
        /\ (/\ LastOp = "__ge__"
            /\ LastRet = TRUE
            /\ Ge(LastArg, sol[z]).ret = TRUE)
           => Ge(Self, sol[z]).ret = TRUE

\* C3 (amended): for fully evaluated solutions sharing the target mapping,
\* X > Y and Y > Z implies X > Z when the mapping has at most two targets, and
\* X >= Y and Y >= Z implies X >= Z when it has exactly one target.
C3_TransitiveUpToTwoTargets ==
    \A z \in DOMAIN sol :
        /\ (/\ LastOp = "__gt__"
            /\ LastRet = TRUE
            /\ Len0(Self.targets) <= 2
            /\ Gt(LastArg, sol[z]).ret = TRUE)
           => Gt(Self, sol[z]).ret = TRUE
        /\ (/\ LastOp = "__ge__"
            /\ LastRet = TRUE
            /\ Len0(Self.targets) = 1
            /\ Ge(LastArg, sol[z]).ret = TRUE)
           => Ge(Self, sol[z]).ret = TRUE

\* X > Y was just evaluated; X beats Y on p only and Y beats Z on q only
C3_Witness ==
    /\ LastOp = "__gt__"
    /\ LastRet = TRUE
    /\ LastSelf = 1
    /\ LastArg = sol[2]
    /\ DOMAIN sol[1].targets = {"p", "q"}
    /\ Differences(sol[1], sol[2])["p"] > 0
    /\ Differences(sol[1], sol[2])["q"] = 0
    /\ Differences(sol[2], sol[3])["p"] = 0
    /\ Differences(sol[2], sol[3])["q"] > 0
    /\ Gt(sol[2], sol[3]).ret = TRUE

\* C4 (as stated): whenever X.comparedTo(Y) returns r, Y.comparedTo(X)
\* returns -r.
C4_SwapNegates ==
    (LastOp = "comparedTo" /\ LastErr = NoErr)
    => LET back == comparedTo(LastArg, Self)
       IN  back.err = NoErr /\ back.ret = 0 - LastRet

\* C5 (as stated): with identical target mappings comparedTo fails iff the two
\* solutions have fitness recorded for different numbers of targets, the
\* failure is the not-comparable error, and no other error is raised.
C5_FailsIffCountsDiffer ==
    (LastOp = "comparedTo" /\ Self.targets = LastArg.targets)
    => /\ (LastErr # NoErr) <=> (Len0(Self.fitness) # Len0(LastArg.fitness))
       /\ LastErr \in {NoErr, NotComparable}

\* C5 (amended): with identical target mappings comparedTo fails iff the two
\* solutions have fitness recorded for different sets of targets: with the
\* not-comparable error when the numbers of recorded targets differ, with a
\* key-lookup error when the numbers are equal but the targets differ; when
\* the recorded target sets are equal it returns.
C5_FailsIffRecordedTargetsDiffer ==
    (LastOp = "comparedTo" /\ Self.targets = LastArg.targets)
    => /\ (LastErr # NoErr) <=> (DOMAIN Self.fitness # DOMAIN LastArg.fitness)
       /\ Len0(Self.fitness) # Len0(LastArg.fitness) => LastErr = NotComparable
       /\ (/\ Len0(Self.fitness) = Len0(LastArg.fitness)
           /\ DOMAIN Self.fitness # DOMAIN LastArg.fitness) => LastErr = KeyError

\* a comparison of two solutions that each recorded one, different, target
C5_Witness ==
    /\ LastOp = "comparedTo"
    /\ Self.targets = LastArg.targets
    /\ DOMAIN Self.fitness = {"p"}
    /\ DOMAIN LastArg.fitness = {"q"}
    /\ LastErr = KeyError

\* C6: in every reachable state the keys of a solution's fitness mapping are
\* keys of its targets mapping.
C6_FitnessKeysWithinTargets ==
    \A i \in DOMAIN sol : DOMAIN sol[i].fitness \subseteq DOMAIN sol[i].targets

\* a store for an undeclared target was just refused on a solution that
\* already holds fitness
C6_Witness ==
    /\ LastOp = "set_fitness"
    /\ LastErr = TargetMismatch
    /\ ArgName \notin DOMAIN Self.targets
    /\ DOMAIN Self.fitness # {}

\* C7 (as stated): a freshly constructed Solution has every declared
\* variable's encoded value None, no recorded fitness, and is_evaluated()
\* returns false, for every target mapping.
C7_FreshUnevaluated ==
    \A i \in DOMAIN sol :
        phase[i] = "fresh"
        => /\ \A v \in Range(variable_names[i]) :
                  v \in DOMAIN sol[i].encoded /\ sol[i].encoded[v] = None
           /\ DOMAIN sol[i].fitness = {}
           /\ (LastOp = "is_evaluated" /\ LastSelf = i) => LastRet = FALSE

\* C7 (amended): the same, for every non-empty target mapping; with no
\* declared target is_evaluated() returns true.
C7_FreshUnevaluatedNonEmpty ==
    \A i \in DOMAIN sol :
        phase[i] = "fresh"
        => /\ \A v \in Range(variable_names[i]) :
                  v \in DOMAIN sol[i].encoded /\ sol[i].encoded[v] = None
           /\ DOMAIN sol[i].fitness = {}
           /\ (LastOp = "is_evaluated" /\ LastSelf = i)
              => (LastRet = TRUE <=> DOMAIN sol[i].targets = {})

\* is_evaluated() was just called on a fresh solution with targets and a
\* declared variable
C7_Witness ==
    /\ LastOp = "is_evaluated"
    /\ phase[LastSelf] = "fresh"
    /\ DOMAIN Self.targets # {}
    /\ variable_names[LastSelf] # <<>>
    /\ LastRet = FALSE

\* C8 (as stated): once set_fitness has stored every declared target
\* is_evaluated() returns true; after a following clear_fitness() it returns
\* false, and it returns true only when every declared target has been stored
\* again, for every target mapping.
C8_EvaluatedFollowsSetAndClear ==
    LastOp = "is_evaluated"
    => /\ called[LastSelf] = DOMAIN Self.targets => LastRet = TRUE
       /\ phase[LastSelf] = "cleared" => LastRet = FALSE
       /\ LastRet = TRUE => called[LastSelf] = DOMAIN Self.targets

\* C8 (amended): the same, for every non-empty target mapping.
C8_EvaluatedFollowsSetAndClearNonEmpty ==
    (LastOp = "is_evaluated" /\ DOMAIN Self.targets # {})
    => /\ called[LastSelf] = DOMAIN Self.targets => LastRet = TRUE
       /\ phase[LastSelf] = "cleared" => LastRet = FALSE
       /\ LastRet = TRUE => called[LastSelf] = DOMAIN Self.targets

\* is_evaluated() was just called after a clear_fitness() and one of two
\* declared targets stored again
C8_Witness ==
    /\ LastOp = "is_evaluated"
    /\ LastRet = FALSE
    /\ Len0(Self.targets) = 2
    /\ Len0(Self.fitness) = 1
    /\ called[LastSelf] # {}

\* C9: set_fitness and get_fitness with a target name that is not a key of
\* targets fail with the target-mismatch error and leave the solution (its
\* fitness, encoded and targets mappings) unchanged.
C9_UndeclaredTargetRejected ==
    [][(/\ last'[1] \in {"set_fitness", "get_fitness"}
        /\ last'[3][1] \notin DOMAIN sol[last'[2]].targets)
       => (last'[4] = TargetMismatch /\ sol' = sol)]_vars

\* a store for an undeclared target was just refused on a solution that
\* holds fitness and an encoded value
C9_Witness ==
    /\ LastOp = "set_fitness"
    /\ LastErr = TargetMismatch
    /\ ArgName \notin DOMAIN Self.targets
    /\ DOMAIN Self.fitness # {}
    /\ \E v \in DOMAIN Self.encoded : Self.encoded[v] # None

\* C10 (as stated): the key set of a solution's encoded mapping stays equal to
\* the variable names declared at construction.
C10_EncodedKeysStayDeclared ==
    \A i \in DOMAIN sol : DOMAIN sol[i].encoded = Range(variable_names[i])

\* C10 (amended): get_encoded with a name that is not a key of encoded fails
\* with a key-lookup error; set_encoded never fails and stores the value,
\* adding the name as a key when it was not declared; so the key set of
\* encoded always contains the declared names.
C10_EncodedKeysContainDeclared ==
    /\ \A i \in DOMAIN sol : Range(variable_names[i]) \subseteq DOMAIN sol[i].encoded
    /\ (LastOp = "get_encoded" /\ ArgName \notin DOMAIN Self.encoded)
       => LastErr = KeyError
    /\ LastOp = "set_encoded"
       => /\ LastErr = NoErr
          /\ ArgName \in DOMAIN Self.encoded
          /\ Self.encoded[ArgName] = LastArg[2]

\* set_encoded just stored a value under a name that was never declared
C10_Witness ==
    /\ LastOp = "set_encoded"
    /\ LastErr = NoErr
    /\ ArgName \notin Range(variable_names[LastSelf])
    /\ ArgName \in DOMAIN Self.encoded

====
